---- MODULE Spec2Model ----
(***************************************************************************)
(* A model of fmin/trust_constr.py: the adapter layer between a tensor     *)
(* objective with tensor constraints and scipy's flat-vector trust-constr  *)
(* solver.  Tensors and arrays are modelled by shape, element store and    *)
(* memory layout; the numerics of the solver and of autograd are external  *)
(* and are modelled by nondeterministic choice.                            *)
(***************************************************************************)
EXTENDS Integers, Sequences, FiniteSets, TLC

VARIABLES
    pc,            \* position of the current fmin_trust_constr call
    x0,            \* the anchor tensor handed to the call
    callerConstr,  \* the caller's constraint dict (the object itself), or None
    origConstr,    \* the dict as the caller wrote it, before any call
    boundsArg,     \* the caller's bounds argument, or None
    hasCallback,   \* whether a callback was supplied
    gradMode,      \* torch's global grad-enabled flag
    gradAtEntry,   \* the flag's value when fmin_trust_constr was entered
    scopes,        \* stack of saved flags of the open no_grad/enable_grad scopes
    solver,        \* what minimize() was invoked with, or not invoked
    cur,           \* the user callable being evaluated by an adapter
    hessOp,        \* the Hessian object the solver currently holds
    calls,         \* how often each callable / autodiff pass has run
    exc,           \* the exception that left the call, if any
    result,        \* the Result returned to the caller, if any
    rawResult,     \* the OptimizeResult as minimize() returned it
    fnIn,          \* input of the pure function under study
    fnOut,         \* its output
    fnPc           \* whether it has been applied

vars == <<pc, x0, callerConstr, origConstr, boundsArg, hasCallback, gradMode,
          gradAtEntry, scopes, solver, cur, hessOp, calls, exc, result,
          rawResult, fnIn, fnOut, fnPc>>

driverVars == <<pc, x0, callerConstr, origConstr, boundsArg, hasCallback,
                gradMode, gradAtEntry, scopes, solver, cur, hessOp, calls,
                exc, result, rawResult>>

-----------------------------------------------------------------------------
(* Bounds of the model *)

\* dimension sizes range over 1..MaxDim
MaxDim == 2
\* element values range over 0..MaxVal
MaxVal == 2

\* np.inf and -np.inf, outside the range of the element values
PosInf == 99
NegInf == 0 - PosInf

-----------------------------------------------------------------------------
(* Tensors and arrays *)

DTypes == {"float32", "float64"}
Devices == {"cpu", "cuda"}

Dims == 1..MaxDim
Shapes == {<<a>> : a \in Dims} \cup {<<a, b>> : a \in Dims, b \in Dims}

RECURSIVE Prod(_)
Prod(s) == IF s = <<>> THEN 1 ELSE Head(s) * Prod(Tail(s))

\* Tensor.numel() and ndarray.size
Numel(t) == Prod(t.shape)

\* Element stores of length n: ramps and constants over the element values
Stores(n) == { [i \in 1..n |-> (b + k * i) % (MaxVal + 1)] :
                  b \in 0..MaxVal, k \in 0..1 }

\* Layout "C" is row-major contiguous; "T" is a transposed view of a
\* row-major matrix (strides swapped), which only a 2-d shape can have.
Layouts(shape) == IF Len(shape) = 2 THEN {"C", "T"} ELSE {"C"}

\* The elements in logical (row-major index) order
Logical(t) ==
    IF t.layout = "C" THEN t.store
    ELSE LET r == t.shape[1]
             c == t.shape[2]
         IN [k \in 1..(r * c) |->
                t.store[(((k - 1) % c) * r) + ((k - 1) \div c) + 1]]

\* is_contiguous(): logical order is storage order
IsContiguous(t) ==
    \/ t.layout = "C"
    \/ t.shape[1] = 1
    \/ t.shape[2] = 1

Tensors == UNION { [kind : {"tensor"}, shape : {s}, store : Stores(Prod(s)),
                    layout : Layouts(s), dtype : DTypes, device : Devices]
                   : s \in Shapes }

Arrays == UNION { [kind : {"ndarray"}, shape : {s}, store : Stores(Prod(s)),
                   layout : Layouts(s), dtype : DTypes]
                  : s \in Shapes }

Anchors == UNION { [kind : {"tensor"}, shape : {s}, store : {[i \in 1..Prod(s) |-> 0]},
                    layout : {"C"}, dtype : DTypes, device : Devices]
                   : s \in Shapes }

Num(c) == [kind |-> "number", val |-> c]
NoneVal == [kind |-> "None"]
StrVal == [kind |-> "str"]
Raised(e) == [kind |-> "error", exc |-> e]

NdArray(shape, store, dtype) ==
    [kind |-> "ndarray", shape |-> shape, store |-> store, layout |-> "C",
     dtype |-> dtype]

MkTensor(shape, store, dtype, device) ==
    [kind |-> "tensor", shape |-> shape, store |-> store, layout |-> "C",
     dtype |-> dtype, device |-> device]

-----------------------------------------------------------------------------
(* The tensor codec *)

\* Tensor.view(-1): a view on the same storage, legal only when the logical
\* order is the storage order; torch raises RuntimeError otherwise.
ViewFlat(t) ==
    IF t.kind = "error" THEN t
    ELSE IF IsContiguous(t)
         THEN [t EXCEPT !.shape = <<Numel(t)>>, !.layout = "C"]
         ELSE Raised("RuntimeError")

\* Tensor.cpu()
Cpu(t) == IF t.kind = "error" THEN t ELSE [t EXCEPT !.device = "cpu"]

\* Tensor.numpy(): the same storage seen as an ndarray
Numpy(t) ==
    IF t.kind = "error" THEN t
    ELSE [kind |-> "ndarray", shape |-> t.shape, store |-> t.store,
          layout |-> t.layout, dtype |-> t.dtype]

\* ndarray.flatten(): a fresh 1-d copy in row-major order
Flatten(a) == NdArray(<<Numel(a)>>, Logical(a), a.dtype)

\* t.view(-1).cpu().numpy(), the flatten-to-host step of the adapters
Encode(t) == Numpy(Cpu(ViewFlat(t)))

\* torch.tensor(x, dtype=..., device=...): a fresh contiguous copy of x
TorchTensor(x, dtype, device) ==
    IF x.kind = "error" THEN x
    ELSE MkTensor(x.shape, Logical(x), dtype, device)

\* Tensor.view_as(a): legal on a contiguous tensor with a's element count
ViewAs(t, a) ==
    IF t.kind = "error" THEN t
    ELSE IF Numel(t) # Numel(a) \/ ~IsContiguous(t) THEN Raised("RuntimeError")
         ELSE [t EXCEPT !.shape = a.shape, !.layout = "C"]

\* to_tensor: torch.tensor(x, dtype=x0.dtype, device=x0.device).view_as(x0)
ToTensor(x, a) == ViewAs(TorchTensor(x, a.dtype, a.device), a)

\* Equality of two tensors as values: torch.equal plus dtype and device
TensorEq(a, b) ==
    /\ a.kind = "tensor" /\ b.kind = "tensor"
    /\ a.shape = b.shape
    /\ Logical(a) = Logical(b)
    /\ a.dtype = b.dtype
    /\ a.device = b.device

-----------------------------------------------------------------------------
(* The bounds normalizer *)

Scalars == {Num(c) : c \in (0..MaxVal) \cup {PosInf, NegInf}}

BoundValues == Scalars \cup Tensors \cup Arrays \cup {NoneVal, StrVal}

\* _build_bound(val, x0)
BuildBound(val, a) ==
    IF val.kind = "number"
    THEN NdArray(<<Numel(a)>>, [i \in 1..Numel(a) |-> val.val], "float64")
    ELSE IF val.kind = "tensor"
    THEN IF Numel(val) # Numel(a) THEN Raised("AssertionError")
         ELSE Flatten(Numpy(Cpu(val)))
    ELSE IF val.kind = "ndarray"
    THEN IF Numel(val) # Numel(a) THEN Raised("AssertionError")
         ELSE val
    ELSE Raised("ValueError")

-----------------------------------------------------------------------------
(* The constraint specification *)

\* _constr_keys
ConstrKeys == {"fun", "lb", "ub", "jac", "hess", "hessp"}

Callable == [kind |-> "callable"]

\* An array one element longer than the anchor
LongArray(a) ==
    NdArray(<<Numel(a) + 1>>, [i \in 1..(Numel(a) + 1) |-> 0], "float64")

\* _build_constr without `assert set(constr.keys()).issubset(_constr_keys)`
ValidateConstrNoKeyCheck(c) ==
    IF "fun" \notin DOMAIN c THEN "AssertionError"
    ELSE IF ~("lb" \in DOMAIN c \/ "ub" \in DOMAIN c) THEN "AssertionError"
    ELSE "none"

\* The asserts of _build_constr, in order; "none" when all pass
ValidateConstr(c) ==
    IF ~(DOMAIN c \subseteq ConstrKeys) THEN "AssertionError"
    ELSE IF "fun" \notin DOMAIN c THEN "AssertionError"
    ELSE IF ~("lb" \in DOMAIN c \/ "ub" \in DOMAIN c) THEN "AssertionError"
    ELSE "none"

\* The dict after `if 'lb' not in constr: ...; if 'ub' not in constr: ...`
FillConstr(c) ==
    LET c1 == IF "lb" \notin DOMAIN c THEN c @@ ("lb" :> Num(NegInf)) ELSE c
    IN IF "ub" \notin DOMAIN c1 THEN c1 @@ ("ub" :> Num(PosInf)) ELSE c1

\* _build_constr(constr, x0): the exception raised ("none" if none), the
\* dict object afterwards, and the NonlinearConstraint built from it
BuildConstr(c, a) ==
    IF ValidateConstr(c) # "none"
    THEN [exc |-> ValidateConstr(c), dict |-> c, nlc |-> NoneVal]
    ELSE LET d == FillConstr(c)
         IN [exc |-> "none", dict |-> d,
             nlc |-> [kind |-> "NonlinearConstraint", lb |-> d["lb"], ub |-> d["ub"]]]

\* The bounds handling of fmin_trust_constr: None, a Bounds object, or the
\* exception raised
BuildBounds(b, a) ==
    IF b.kind = "None" THEN NoneVal
    ELSE IF Len(b.items) # 2 THEN Raised("AssertionError")
    ELSE LET lb == BuildBound(b.items[1], a)
             ub == BuildBound(b.items[2], a)
         IN IF lb.kind = "error" THEN lb
            ELSE IF ub.kind = "error" THEN ub
            ELSE [kind |-> "Bounds", lb |-> lb, ub |-> ub]

-----------------------------------------------------------------------------
(* Grad-mode scopes: `with torch.enable_grad()` and `@torch.no_grad()` *)

\* A scope whose exit restores the flag on normal return only
ExitScopeNoFinally(flag, saved, raising) == IF raising THEN flag ELSE saved

\* The flag after leaving a scope that saved `saved` on entry; `raising`
\* tells whether the scope is left by an exception
ExitScope(flag, saved, raising) == saved

\* The flag after an exception has unwound every open scope, innermost first
RECURSIVE UnwindFlag(_, _)
UnwindFlag(flag, stack) ==
    IF stack = <<>> THEN flag
    ELSE UnwindFlag(ExitScope(flag, stack[Len(stack)], TRUE),
                    SubSeq(stack, 1, Len(stack) - 1))

-----------------------------------------------------------------------------
(* The solve *)

\* most adapter requests the solver makes in one solve
MaxCalls == 3

Counters == {"f", "fun", "jac", "hess", "hessp", "callback",
             "ad_obj", "ad_jac", "ad_hess"}

NoCalls == [k \in Counters |-> 0]

RECURSIVE Sum(_, _)
Sum(f, S) == IF S = {} THEN 0
             ELSE LET k == CHOOSE k \in S : TRUE IN f[k] + Sum(f, S \ {k})

Requests == Sum(calls, Counters)

Bump(c, k) == [c EXCEPT ![k] = @ + 1]

Idle == [adapter |-> "none", callee |-> "none", scoped |-> FALSE, raised |-> FALSE]

NotInvoked == [invoked |-> FALSE]

NoOp == [kind |-> "none"]

\* An adapter that catches the exception and lets the solver go on
OnUserExceptionSwallow(e) == [pc |-> "solving", exc |-> "none"]

\* No try/except anywhere between the user's callable and the caller of
\* fmin_trust_constr: the exception leaves the call as it is
OnUserException(e) == [pc |-> "raised", exc |-> e]

\* Which override f_jac uses
JacTier(c) == IF "jac" \in DOMAIN c THEN "jac" ELSE "autodiff"

\* f_hess testing 'hessp' before 'hess'
HessTierHesspFirst(c) ==
    IF "hessp" \in DOMAIN c THEN "hessp"
    ELSE IF "hess" \in DOMAIN c THEN "hess"
    ELSE "autodiff"

\* Which of the three tiers f_hess uses
HessTier(c) ==
    IF "hess" \in DOMAIN c THEN "hess"
    ELSE IF "hessp" \in DOMAIN c THEN "hessp"
    ELSE "autodiff"

\* The conversion of the solver's result, lines 157-159
ConvertResult(r, a) ==
    LET t(key) == TorchTensor(r[key], a.dtype, a.device)
    IN [r EXCEPT !["fun"] = t("fun"),
                 !["grad"] = t("grad"),
                 !["x"] = ViewAs(t("x"), a)]

\* What minimize() can return for an anchor of n elements
SolverResults(a) ==
    { [x |-> NdArray(<<Numel(a)>>, [i \in 1..Numel(a) |-> i % (MaxVal + 1)], "float64"),
       grad |-> NdArray(<<Numel(a)>>, [i \in 1..Numel(a) |-> 0], "float64"),
       fun |-> NdArray(<<>>, <<v>>, "float64"),
       status |-> st,
       success |-> (st \in {1, 2})] : v \in 0..1, st \in 0..2 }

\* An exception leaves fmin_trust_constr: every open scope is unwound
Leave(e) ==
    /\ pc' = "raised"
    /\ exc' = e
    /\ gradMode' = UnwindFlag(gradMode, scopes)
    /\ scopes' = <<>>
    /\ result' = NoneVal

\* fmin_trust_constr up to the point where minimize() is entered
Setup ==
    /\ pc = "start"
    /\ LET b == BuildBounds(boundsArg, x0)
           c == IF callerConstr.kind = "None"
                THEN [exc |-> "none", dict |-> NoneVal, nlc |-> NoneVal]
                ELSE BuildConstr(callerConstr.dict, x0)
       IN IF b.kind = "error"
          THEN /\ pc' = "raised" /\ exc' = b.exc
               /\ gradMode' = ExitScope(FALSE, gradMode, TRUE)
               /\ UNCHANGED <<callerConstr, solver>>
          ELSE IF c.exc # "none"
          THEN /\ pc' = "raised" /\ exc' = c.exc
               /\ gradMode' = ExitScope(FALSE, gradMode, TRUE)
               /\ UNCHANGED <<callerConstr, solver>>
          ELSE /\ pc' = "solving" /\ exc' = "none"
               /\ gradMode' = FALSE
               /\ callerConstr' = IF callerConstr.kind = "None" THEN callerConstr
                                  ELSE [callerConstr EXCEPT !.dict = c.dict]
               /\ solver' = [invoked |-> TRUE, bounds |-> b,
                             constraints |-> IF c.nlc.kind = "None" THEN <<>> ELSE <<c.nlc>>,
                             callback |-> hasCallback]
    /\ scopes' = IF pc' = "solving" THEN <<gradMode>> ELSE <<>>
    /\ gradAtEntry' = gradMode
    /\ UNCHANGED <<x0, origConstr, boundsArg, hasCallback, cur, hessOp, calls,
                   result, rawResult, fnIn, fnOut, fnPc>>

\* An adapter hands control to a user callable, inside an enable_grad scope
\* when `scoped`
Enter(adapter, callee, scoped) ==
    /\ pc' = "user"
    /\ cur' = [adapter |-> adapter, callee |-> callee, scoped |-> scoped,
               raised |-> FALSE]
    /\ calls' = Bump(calls, callee)
    /\ gradMode' = IF scoped THEN TRUE ELSE gradMode
    /\ scopes' = IF scoped THEN Append(scopes, gradMode) ELSE scopes
    /\ UNCHANGED <<x0, callerConstr, origConstr, boundsArg, hasCallback,
                   gradAtEntry, solver, hessOp, exc, result, rawResult, fnIn, fnOut, fnPc>>

CanRequest == pc = "solving" /\ Requests < MaxCalls

HasConstraint == solver.constraints # <<>>

\* _build_funcs.f_with_jac
CallFWithJac == CanRequest /\ Enter("f_with_jac", "f", TRUE)

\* _build_funcs.f_hess
CallFHess == CanRequest /\ Enter("f_hess", "f", TRUE)

\* _build_constr.f
CallConstrFun == CanRequest /\ HasConstraint /\ Enter("c_fun", "fun", FALSE)

\* _build_constr.f_jac
CallConstrJac ==
    /\ CanRequest /\ HasConstraint
    /\ IF JacTier(callerConstr.dict) = "jac"
       THEN Enter("c_jac", "jac", FALSE)
       ELSE Enter("c_jac", "fun", TRUE)

\* _build_constr.f_hess
CallConstrHess ==
    /\ CanRequest /\ HasConstraint
    /\ LET tier == HessTier(callerConstr.dict)
       IN IF tier = "hess" THEN Enter("c_hess", "hess", FALSE)
          ELSE IF tier = "hessp"
          THEN /\ hessOp' = [kind |-> "hessp"]
               /\ UNCHANGED <<pc, x0, callerConstr, origConstr, boundsArg,
                              hasCallback, gradMode, gradAtEntry, scopes, solver,
                              cur, calls, exc, result, rawResult,
                              fnIn, fnOut, fnPc>>
          ELSE IF "jac" \in DOMAIN callerConstr.dict
          THEN Enter("c_hess", "jac", TRUE)
          ELSE Enter("c_hess", "fun", TRUE)

\* A tensor of the given shape and layout, as a callable or autograd returns it
Produced(shape, l, a) ==
    [kind |-> "tensor", shape |-> shape, store |-> [i \in 1..Prod(shape) |-> 0],
     layout |-> l, dtype |-> a.dtype, device |-> a.device]

\* matvec of the LinearOperator the solver holds (lines 28-31, 72-75, 84-87)
CallMatvec ==
    /\ CanRequest
    /\ hessOp.kind \in {"hessp", "obj_autodiff", "c_autodiff"}
    /\ IF hessOp.kind = "hessp" THEN Enter("matvec", "hessp", FALSE)
       ELSE \E l \in Layouts(x0.shape) :
            /\ calls' = Bump(calls, IF hessOp.kind = "obj_autodiff"
                                    THEN "ad_obj" ELSE "ad_hess")
            /\ cur' = Idle
            /\ IF Encode(Produced(x0.shape, l, x0)).kind = "error"
               THEN Leave("RuntimeError")
               ELSE UNCHANGED <<pc, exc, gradMode, scopes, result>>
            /\ UNCHANGED <<x0, callerConstr, origConstr, boundsArg, hasCallback,
                           gradAtEntry, solver, hessOp, rawResult,
                           fnIn, fnOut, fnPc>>

\* The wrapped callback, `lambda x: callback_(to_tensor(x))`.  The lambda takes
\* one argument; a solver that passes more (the iterate and its state) gets a
\* TypeError before the user's callback is reached.
CallCallback ==
    /\ CanRequest
    /\ solver.callback
    /\ \E oneArgument \in BOOLEAN :
         IF oneArgument THEN Enter("callback", "callback", FALSE)
         ELSE /\ Leave("TypeError")
              /\ UNCHANGED <<x0, callerConstr, origConstr, boundsArg, hasCallback,
                             gradAtEntry, solver, cur, hessOp, calls, rawResult,
                             fnIn, fnOut, fnPc>>

\* The adapter runs an autograd pass once the callable has returned
DoesAutograd(c) ==
    <<c.adapter, c.callee>> \in {<<"f_with_jac", "f">>, <<"f_hess", "f">>,
                                 <<"c_jac", "fun">>, <<"c_hess", "fun">>}

\* ... and that pass is inside the enable_grad scope
AutogradInScope(c) == DoesAutograd(c) /\ c.adapter # "f_with_jac"

\* The counter of that pass
AutogradCounter(c) ==
    IF c.adapter \in {"f_with_jac", "f_hess"} THEN "ad_obj"
    ELSE IF c.adapter = "c_jac" THEN "ad_jac" ELSE "ad_hess"

\* The adapter flattens a tensor with view()
Encodes(c) ==
    \/ c.adapter \in {"f_with_jac", "c_jac", "matvec"}
    \/ (c.adapter = "c_hess" /\ c.callee = "hess")

\* The shape of the tensor it flattens
OutShape(c, a) ==
    IF c.adapter = "c_hess" THEN <<Numel(a), Numel(a)>> ELSE a.shape

\* The Hessian object the solver holds after the adapter has returned
HessAfter(c, h) ==
    IF c.adapter = "f_hess" THEN [kind |-> "obj_autodiff"]
    ELSE IF c.adapter = "c_hess"
    THEN IF c.callee = "hess" THEN [kind |-> "dense"] ELSE [kind |-> "c_autodiff"]
    ELSE h

\* The user callable returns and the adapter finishes its work
UserReturn ==
    /\ pc = "user"
    /\ \E l \in Layouts(OutShape(cur, x0)), diffOk \in BOOLEAN :
        LET adFail == DoesAutograd(cur) /\ ~diffOk
            viewFail == /\ ~adFail
                        /\ Encodes(cur)
                        /\ Encode(Produced(OutShape(cur, x0), l, x0)).kind = "error"
            stack1 == IF cur.scoped THEN SubSeq(scopes, 1, Len(scopes) - 1) ELSE scopes
            flag1 == IF cur.scoped
                     THEN ExitScope(gradMode, scopes[Len(scopes)],
                                    adFail /\ AutogradInScope(cur))
                     ELSE gradMode
        IN /\ calls' = IF DoesAutograd(cur) THEN Bump(calls, AutogradCounter(cur))
                       ELSE calls
           /\ IF adFail \/ viewFail
              THEN /\ pc' = "raised" /\ exc' = "RuntimeError"
                   /\ gradMode' = UnwindFlag(flag1, stack1)
                   /\ scopes' = <<>>
                   /\ UNCHANGED hessOp
              ELSE /\ pc' = "solving" /\ exc' = exc
                   /\ gradMode' = flag1
                   /\ scopes' = stack1
                   /\ hessOp' = HessAfter(cur, hessOp)
    /\ UNCHANGED <<x0, callerConstr, origConstr, boundsArg, hasCallback,
                   gradAtEntry, solver, cur, result, rawResult,
                   fnIn, fnOut, fnPc>>

\* The user callable raises
UserRaise ==
    /\ pc = "user"
    /\ LET h == OnUserException("UserError")
           stack1 == IF cur.scoped THEN SubSeq(scopes, 1, Len(scopes) - 1) ELSE scopes
           flag1 == IF cur.scoped
                    THEN ExitScope(gradMode, scopes[Len(scopes)], TRUE)
                    ELSE gradMode
       IN /\ pc' = h.pc
          /\ exc' = h.exc
          /\ gradMode' = IF h.pc = "raised" THEN UnwindFlag(flag1, stack1) ELSE flag1
          /\ scopes' = IF h.pc = "raised" THEN <<>> ELSE stack1
    /\ cur' = [cur EXCEPT !.raised = TRUE]
    /\ UNCHANGED <<x0, callerConstr, origConstr, boundsArg, hasCallback,
                   gradAtEntry, solver, hessOp, calls, result, rawResult, fnIn, fnOut, fnPc>>

\* minimize() returns and fmin_trust_constr converts and returns the result
SolverReturn ==
    /\ pc = "solving"
    /\ \E r \in SolverResults(x0) :
        /\ rawResult' = r
        /\ result' = ConvertResult(r, x0)
    /\ pc' = "returned"
    /\ gradMode' = ExitScope(gradMode, scopes[1], FALSE)
    /\ scopes' = <<>>
    /\ UNCHANGED <<x0, callerConstr, origConstr, boundsArg, hasCallback,
                   gradAtEntry, solver, cur, hessOp, calls, exc,
                   fnIn, fnOut, fnPc>>

-----------------------------------------------------------------------------
(* The calls the model considers *)

\* The anchors of the solves: a flat one and a matrix-shaped one
DriverAnchors ==
    { MkTensor(<<MaxDim>>, [i \in 1..MaxDim |-> 0], "float32", "cpu"),
      MkTensor(<<MaxDim, MaxDim>>, [i \in 1..(MaxDim * MaxDim) |-> 0], "float64", "cuda") }

\* Values a caller may put under 'lb' / 'ub' of a constraint dict
ConstrBoundVals(a) == {Num(0), StrVal, LongArray(a)}

ValsFor(k, a) == IF k \in {"lb", "ub"} THEN ConstrBoundVals(a) ELSE {Callable}

\* The constraint dicts with keys among `keys`
ConstrDicts(keys, a) ==
    UNION { { d \in [K -> ConstrBoundVals(a) \cup {Callable}] :
                \A k \in K : d[k] \in ValsFor(k, a) }
            : K \in SUBSET keys }

ConstrArgs(keys, a) ==
    {NoneVal} \cup {[kind |-> "dict", dict |-> d] : d \in ConstrDicts(keys, a)}

BoundSides(a) ==
    {Num(0), NoneVal,
     MkTensor(a.shape, [i \in 1..Numel(a) |-> 1], a.dtype, a.device)}

BoundsArgs(a) ==
    {NoneVal}
    \cup {[kind |-> "tuple", items |-> <<u>>] : u \in BoundSides(a)}
    \cup {[kind |-> "tuple", items |-> <<u, v>>] :
             u \in BoundSides(a), v \in BoundSides(a)}

NoFn == [kind |-> "None"]

\* The state before a call of fmin_trust_constr with the given arguments
Before(a, c, b, cb, g) ==
    /\ pc = "start"
    /\ x0 = a
    /\ callerConstr = c
    /\ origConstr = c
    /\ boundsArg = b
    /\ hasCallback = cb
    /\ gradMode = g
    /\ gradAtEntry = g
    /\ scopes = <<>>
    /\ solver = NotInvoked
    /\ cur = Idle
    /\ hessOp = NoOp
    /\ calls = NoCalls
    /\ exc = "none"
    /\ result = NoneVal
    /\ rawResult = NoneVal
    /\ fnIn = NoFn /\ fnOut = NoFn /\ fnPc = "off"

\* Calls with every kind of constraint dict and bounds argument, and no
\* derivative overrides
Init ==
    \E a \in DriverAnchors, cb \in BOOLEAN, g \in BOOLEAN :
    \E c \in ConstrArgs({"fun", "lb", "ub", "extra"}, a), b \in BoundsArgs(a) :
        Before(a, c, b, cb, g)

\* Calls with a well-formed constraint dict and every combination of the
\* derivative overrides
InitAdapters ==
    \E a \in DriverAnchors, cb \in BOOLEAN, g \in BOOLEAN :
    \E c \in ConstrArgs({"fun", "lb", "jac", "hess", "hessp"}, a) :
        /\ c.kind = "dict" => ({"fun", "lb"} \subseteq DOMAIN c.dict /\ c.dict["lb"] = Num(0))
        /\ Before(a, c, NoneVal, cb, g)

Next ==
    \/ Setup
    \/ CallFWithJac
    \/ CallFHess
    \/ CallConstrFun
    \/ CallConstrJac
    \/ CallConstrHess
    \/ CallMatvec
    \/ CallCallback
    \/ UserReturn
    \/ UserRaise
    \/ SolverReturn

Spec == Init /\ [][Next]_vars

SpecAdapters == InitAdapters /\ [][Next]_vars

-----------------------------------------------------------------------------
(* _build_bound and the codec on their own, over every input *)

\* No call of fmin_trust_constr is in progress
DriverOff ==
    /\ pc = "off"
    /\ x0 = NoneVal /\ callerConstr = NoneVal /\ origConstr = NoneVal
    /\ boundsArg = NoneVal /\ hasCallback = FALSE
    /\ gradMode = TRUE /\ gradAtEntry = TRUE /\ scopes = <<>>
    /\ solver = NotInvoked /\ cur = Idle /\ hessOp = NoOp /\ calls = NoCalls
    /\ exc = "none" /\ result = NoneVal /\ rawResult = NoneVal

InitBound ==
    /\ DriverOff
    /\ fnIn \in [val : BoundValues, x0 : Anchors]
    /\ fnOut = NoFn
    /\ fnPc = "input"

\* lb = _build_bound(val, x0)
ApplyBuildBound ==
    /\ fnPc = "input"
    /\ fnOut' = BuildBound(fnIn.val, fnIn.x0)
    /\ fnPc' = "done"
    /\ UNCHANGED <<fnIn, driverVars>>

SpecBound == InitBound /\ [][ApplyBuildBound]_vars

\* The anchor a tensor conforms to: its shape, dtype and device
AnchorOf(t) == MkTensor(t.shape, [i \in 1..Numel(t) |-> 0], t.dtype, t.device)

InitCodec ==
    /\ DriverOff
    /\ fnIn \in {[t |-> t, x0 |-> AnchorOf(t)] : t \in Tensors}
    /\ fnOut = NoFn
    /\ fnPc = "input"

\* t.view(-1).cpu().numpy()
EncodeStep ==
    /\ fnPc = "input"
    /\ fnOut' = Encode(fnIn.t)
    /\ fnPc' = "encoded"
    /\ UNCHANGED <<fnIn, driverVars>>

\* to_tensor(x), reached only when the encoding did not raise
DecodeStep ==
    /\ fnPc = "encoded"
    /\ fnOut.kind # "error"
    /\ fnOut' = ToTensor(fnOut, fnIn.x0)
    /\ fnPc' = "decoded"
    /\ UNCHANGED <<fnIn, driverVars>>

NextCodec == EncodeStep \/ DecodeStep

SpecCodec == InitCodec /\ [][NextCodec]_vars

-----------------------------------------------------------------------------
(* The claims *)

\* The call has got past its setup: it raised, is solving, or returned
Started == pc \in {"solving", "user", "returned", "raised"}

ConfigErrors == {"AssertionError", "ValueError"}

\* A constraint dict with an unrecognized field, without 'fun', or with
\* neither 'lb' nor 'ub'
Malformed(d) ==
    \/ ~(DOMAIN d \subseteq {"fun", "lb", "ub", "jac", "hess", "hessp"})
    \/ "fun" \notin DOMAIN d
    \/ ("lb" \notin DOMAIN d /\ "ub" \notin DOMAIN d)

\* C1: a call whose constraint specification has a field outside {fun, lb,
\* ub, jac, hess, hessp}, lacks 'fun', or has neither 'lb' nor 'ub' ends in
\* a configuration error raised before minimize is invoked, with no user
\* callable called.
C1_MalformedConstrRaisesBeforeSolve ==
    (Started /\ origConstr.kind = "dict" /\ Malformed(origConstr.dict))
        => /\ pc = "raised"
           /\ exc \in ConfigErrors
           /\ ~solver.invoked
           /\ calls = NoCalls

\* C1 witness: a dict with an unrecognized field and no bounds argument has
\* been rejected
C1_Witness ==
    /\ pc = "raised"
    /\ exc = "AssertionError"
    /\ boundsArg = NoneVal
    /\ origConstr.kind = "dict"
    /\ DOMAIN origConstr.dict = {"fun", "lb", "extra"}

\* A value as the claim describes the result of _build_bound
FlatOfLength(v, n) == v.kind = "ndarray" /\ v.shape = <<n>>

\* C2: _build_bound(val, x0) returns a flat vector of length n = x0.numel()
\* or raises: a scalar c gives n entries equal to c, a tensor of n elements
\* its elements flattened in order, an array of n elements is returned
\* as-is, anything else raises.
C2_BuildBoundFlatOrRaises ==
    fnPc = "done" =>
        LET v == fnIn.val
            n == Numel(fnIn.x0)
        IN /\ fnOut.kind = "error" \/ FlatOfLength(fnOut, n)
           /\ v.kind = "number" =>
                 (FlatOfLength(fnOut, n) /\ \A i \in 1..n : fnOut.store[i] = v.val)
           /\ (v.kind = "tensor" /\ Numel(v) = n) =>
                 (FlatOfLength(fnOut, n) /\ Logical(fnOut) = Logical(v))
           /\ (v.kind = "ndarray" /\ Numel(v) = n) => fnOut = v
           /\ (v.kind \in {"tensor", "ndarray"} /\ Numel(v) # n) => fnOut.kind = "error"
           /\ v.kind \notin {"number", "tensor", "ndarray"} => fnOut.kind = "error"

\* A bound the solver reads as `inf` in every component: a vector of infs,
\* or the scalar the solver broadcasts
AllInf(v, inf) ==
    \/ (v.kind = "number" /\ v.val = inf)
    \/ (v.kind = "ndarray" /\ \A i \in 1..Numel(v) : Logical(v)[i] = inf)

\* A bound value _build_bound accepts for the anchor
GoodSide(v, a) ==
    \/ v.kind = "number"
    \/ (v.kind \in {"tensor", "ndarray"} /\ Numel(v) = Numel(a))

WellFormedConstr(c) == c.kind = "None" \/ ~Malformed(c.dict)

\* C3: with only a lower bound supplied, in the constraint specification or
\* in the bounds argument, the solver gets an upper bound of +inf
\* everywhere, and symmetrically -inf for a missing lower bound; the
\* missing side raises no error.
C3_MissingSideDefaultsToInf ==
    Started =>
        /\ \* the constraint specification
           (/\ origConstr.kind = "dict" /\ ~Malformed(origConstr.dict)
            /\ boundsArg = NoneVal)
           => /\ solver.invoked
              /\ "ub" \notin DOMAIN origConstr.dict
                    => AllInf(solver.constraints[1].ub, PosInf)
              /\ "lb" \notin DOMAIN origConstr.dict
                    => AllInf(solver.constraints[1].lb, NegInf)
        /\ \* the bounds argument, one side given and the other None
           (/\ boundsArg.kind = "tuple" /\ Len(boundsArg.items) = 2
            /\ WellFormedConstr(origConstr))
           => LET lo == boundsArg.items[1]
                  hi == boundsArg.items[2]
              IN /\ (GoodSide(lo, x0) /\ hi = NoneVal)
                    => (solver.invoked /\ AllInf(solver.bounds.ub, PosInf))
                 /\ (lo = NoneVal /\ GoodSide(hi, x0))
                    => (solver.invoked /\ AllInf(solver.bounds.lb, NegInf))

\* A bound value of unrecognized type or of the wrong length for the anchor
BadSide(v, a) == ~GoodSide(v, a)

\* C4: a constraint specification whose 'lb' or 'ub' is of unrecognized
\* type, or of a length other than the anchor's element count, raises a
\* configuration error before minimize is invoked.
C4_ConstrBoundValidated ==
    (/\ Started
     /\ origConstr.kind = "dict"
     /\ \E k \in {"lb", "ub"} \cap DOMAIN origConstr.dict :
            BadSide(origConstr.dict[k], x0))
        => (pc = "raised" /\ exc \in ConfigErrors /\ ~solver.invoked)

\* C5: on return, 'x' and 'grad' are tensors with the anchor's dtype, device
\* and shape, 'fun' is a tensor with the anchor's dtype and device, and
\* every other field is as minimize returned it.
C5_ResultMatchesAnchor ==
    pc = "returned" =>
        /\ \A k \in {"x", "grad"} :
              /\ result[k].kind = "tensor"
              /\ result[k].dtype = x0.dtype
              /\ result[k].device = x0.device
              /\ result[k].shape = x0.shape
        /\ result.fun.kind = "tensor"
        /\ result.fun.dtype = x0.dtype
        /\ result.fun.device = x0.device
        /\ \A k \in DOMAIN rawResult \ {"x", "grad", "fun"} : result[k] = rawResult[k]

\* The overrides the caller supplied
Overrides == IF callerConstr.kind = "dict" THEN DOMAIN callerConstr.dict ELSE {}

\* C6: autodiff is used for a quantity only when no override applies to it:
\* with 'hess' neither 'hessp' nor autodiff is used for the Hessian, with
\* 'hessp' autodiff is not used for the Hessian-vector product, with 'jac'
\* autodiff is not used for the Jacobian; so with 'jac' and 'hessp' the
\* autodiff passes over the constraint function stay 0 for both.
C6_AutodiffOnlyWithoutOverride ==
    /\ "hess" \in Overrides =>
          (calls["hessp"] = 0 /\ calls["ad_hess"] = 0
           /\ hessOp.kind \notin {"hessp", "c_autodiff"})
    /\ "hessp" \in Overrides => (calls["ad_hess"] = 0 /\ hessOp.kind # "c_autodiff")
    /\ "jac" \in Overrides => calls["ad_jac"] = 0
    /\ ({"jac", "hessp"} \subseteq Overrides) =>
          (calls["ad_jac"] = 0 /\ calls["ad_hess"] = 0)
    /\ calls["ad_jac"] > 0 => "jac" \notin Overrides
    /\ calls["ad_hess"] > 0 => ("hess" \notin Overrides /\ "hessp" \notin Overrides)

\* C6 witness: with 'jac' and 'hessp' (and no 'hess') supplied, the solver
\* has asked for a Jacobian and for a Hessian-vector product
C6_Witness ==
    /\ {"jac", "hessp"} \subseteq Overrides
    /\ "hess" \notin Overrides
    /\ calls["jac"] > 0
    /\ calls["hessp"] > 0
    /\ pc = "solving"

\* C7: for every tensor t with the anchor's shape, dtype and device,
\* decode(encode(t)) equals t exactly: the encoding yields a flat array and
\* decoding it gives back t's elements in t's order.
C7_CodecRoundTrip ==
    /\ fnPc = "encoded" => FlatOfLength(fnOut, Numel(fnIn.t))
    /\ fnPc = "decoded" => TensorEq(fnOut, fnIn.t)

\* C8: an exception raised by the objective, the constraint function or the
\* callback leaves fmin_trust_constr as it was raised; the callable is not
\* called again and no Result is returned.
C8_UserExceptionPropagates ==
    /\ [](cur.raised => (pc = "raised" /\ exc = "UserError" /\ result = NoneVal))
    /\ [][cur.raised => (calls' = calls /\ pc' = "raised" /\ result' = NoneVal)]_vars

\* C8 witness: the constraint function raised inside the Jacobian adapter
C8_Witness ==
    /\ cur.raised
    /\ cur.callee = "fun"
    /\ cur.adapter = "c_jac"
    /\ pc = "raised"
    /\ exc = "UserError"

\* C9: an invocation writes to nothing the caller or another invocation can
\* read: the caller's constraint specification is after the call what the
\* caller wrote.  (x0, the bounds argument and _constr_keys are written by
\* no action.)
C9_CallerConstrUntouched == callerConstr = origConstr

\* C10: the solve runs with tracking disabled, tracking is enabled only
\* while an adapter evaluates the user function inside its enable_grad
\* scope, and once fmin_trust_constr has returned or raised the flag is
\* what it was on entry.
C10_GradModeScoped ==
    /\ pc = "solving" => (gradMode = FALSE /\ Len(scopes) = 1)
    /\ pc = "user" => gradMode = cur.scoped
    /\ pc \in {"returned", "raised"} => (gradMode = gradAtEntry /\ scopes = <<>>)

\* C10 witness: the user function raised inside an enable_grad scope of a
\* call entered with tracking off, and the call has been left
C10_Witness ==
    /\ pc = "raised"
    /\ cur.raised
    /\ cur.scoped
    /\ gradAtEntry = FALSE
    /\ gradMode = FALSE

====
